---- MODULE Spec2Model ----
(***************************************************************************)
(* A model of the axia-evals evaluation scripts (eval_handwriting.py and   *)
(* eval_sroie2019.py): the field evaluators as operators over Python-like  *)
(* values, and one evaluation run (load_dataset, the bounded-concurrency   *)
(* execution of extract_name / extract_receipt over the cases, the scoring *)
(* of every returned output and the assembly of the report).               *)
(*                                                                         *)
(* Strings are sequences of one-character strings.  Scores are exact       *)
(* fractions <<numerator, denominator>> in lowest terms, so 0.0 is <<0,1>> *)
(* and 1.0 is <<1,1>>.                                                     *)
(***************************************************************************)
EXTENDS Integers, Sequences, FiniteSets, TLC

(* Longest text value drawn for the name, company and address fields. *)
MaxLen == 3

(* Number of cases in the dataset source of the modelled run. *)
NumCases == 3

(* The in-flight limit handed to the runner.  Both entry points pass 20;     *)
(* the limiter is exercised with a small limit and more cases than the limit. *)
ConcurrencyLimit == 2

----------------------------------------------------------------------------
(* Exact arithmetic on fractions *)

RECURSIVE GCD(_, _)
GCD(a, b) == IF b = 0 THEN a ELSE GCD(b, a % b)

AbsInt(n) == IF n < 0 THEN -n ELSE n

Frac(n, d) ==
    LET s == IF d < 0 THEN -1 ELSE 1
        g == GCD(AbsInt(n), AbsInt(d))
    IN  <<(s * n) \div g, (s * d) \div g>>

Zero == <<0, 1>>
One == <<1, 1>>

RSub(x, y) == Frac(x[1] * y[2] - y[1] * x[2], x[2] * y[2])
RDiv(x, y) == Frac(x[1] * y[2], x[2] * y[1])
RAbs(x) == <<AbsInt(x[1]), x[2]>>
RLess(x, y) == x[1] * y[2] < y[1] * x[2]
RMax(x, y) == IF RLess(x, y) THEN y ELSE x

----------------------------------------------------------------------------
(* Python values and mappings *)

None == [t |-> "None", s |-> <<>>, v |-> Zero]
Str(chars) == [t |-> "str", s |-> chars, v |-> Zero]
Num(q) == [t |-> "num", s |-> <<>>, v |-> q]

EmptyDict == [k \in {} |-> None]
Dict(key, val) == [k \in {key} |-> val]

(* dict.get(key): the value, or None when the key is absent *)
Get(d, key) == IF key \in DOMAIN d THEN d[key] ELSE None

Return(score) == [kind |-> "return", score |-> score, exc |-> "-"]
Raise(exc) == [kind |-> "raise", score |-> Zero, exc |-> exc]

----------------------------------------------------------------------------
(* str.upper() on the characters the model draws *)

UpperChar(c) ==
    CASE c = "e" -> "E"
      [] c = "m" -> "M"
      [] c = "p" -> "P"
      [] OTHER -> c

Upper(s) == [i \in 1..Len(s) |-> UpperChar(s[i])]

----------------------------------------------------------------------------
(* difflib.SequenceMatcher(None, a, b).ratio().  Indices are Python's:      *)
(* a[i] is the model's a[i + 1], and ranges are half open.                  *)

RECURSIVE CommonPrefix(_, _, _, _, _, _)
CommonPrefix(a, b, i, j, ahi, bhi) ==
    IF i < ahi /\ j < bhi /\ a[i + 1] = b[j + 1]
    THEN 1 + CommonPrefix(a, b, i + 1, j + 1, ahi, bhi)
    ELSE 0

(* The longest block a[i:i+k] == b[j:j+k] inside a[alo:ahi], b[blo:bhi];    *)
(* of the longest blocks the one starting earliest in a, and of those the   *)
(* one starting earliest in b; (alo, blo, 0) when nothing matches.          *)
find_longest_match(a, b, alo, ahi, blo, bhi) ==
    LET Pairs == (alo..(ahi - 1)) \X (blo..(bhi - 1))
        K(p) == CommonPrefix(a, b, p[1], p[2], ahi, bhi)
        Better(p, q) ==
            \/ K(p) > K(q)
            \/ K(p) = K(q) /\ p[1] < q[1]
            \/ K(p) = K(q) /\ p[1] = q[1] /\ p[2] <= q[2]
    IN  IF \A p \in Pairs : K(p) = 0
        THEN <<alo, blo, 0>>
        ELSE LET best == CHOOSE p \in Pairs : \A q \in Pairs : Better(p, q)
             IN  <<best[1], best[2], K(best)>>

(* Total size of the blocks get_matching_blocks() collects: the longest     *)
(* match, then the pieces to its left and to its right.                     *)
RECURSIVE get_matching_blocks(_, _, _, _, _, _)
get_matching_blocks(a, b, alo, ahi, blo, bhi) ==
    LET m == find_longest_match(a, b, alo, ahi, blo, bhi)
        i == m[1]
        j == m[2]
        k == m[3]
    IN  IF k = 0 THEN 0
        ELSE k
             + (IF alo < i /\ blo < j
                THEN get_matching_blocks(a, b, alo, i, blo, j) ELSE 0)
             + (IF i + k < ahi /\ j + k < bhi
                THEN get_matching_blocks(a, b, i + k, ahi, j + k, bhi) ELSE 0)

(* ratio() without the 1.0 it gives two empty sequences *)
ratio_empty_zero(a, b) ==
    LET matches == get_matching_blocks(a, b, 0, Len(a), 0, Len(b))
        length == Len(a) + Len(b)
    IN  IF length = 0 THEN Zero ELSE Frac(2 * matches, length)

ratio(a, b) ==
    LET matches == get_matching_blocks(a, b, 0, Len(a), 0, Len(b))
        length == Len(a) + Len(b)
    IN  IF length = 0 THEN One ELSE Frac(2 * matches, length)

----------------------------------------------------------------------------
(* eval_handwriting.py: NameEvaluator *)

EMPTY == <<"E", "M", "P", "T", "Y">>

(* Python truthiness of a field value: None, "" and 0 are falsy *)
Falsy(val) ==
    \/ val.t = "None"
    \/ val.t = "str" /\ val.s = <<>>
    \/ val.t = "num" /\ val.v = Zero

NameEvaluator(ctx) ==
    IF "name" \notin DOMAIN ctx.output
    THEN Return(Zero)                                   \* except KeyError
    ELSE LET got == ctx.output["name"]
             result == IF Falsy(got) THEN Str(EMPTY) ELSE got
         IN  IF result.t # "str" THEN Raise("AttributeError")
             ELSE IF "name" \notin DOMAIN ctx.expected_output
                  THEN Raise("KeyError")
             ELSE IF ctx.expected_output["name"].t # "str"
                  THEN Raise("AttributeError")
             ELSE Return(ratio(Upper(result.s),
                               Upper(ctx.expected_output["name"].s)))

----------------------------------------------------------------------------
(* eval_sroie2019.py: CompanyEvaluator, AddressEvaluator *)

CompanyEvaluator(ctx) ==
    IF Get(ctx.output, "company") = None \/ Get(ctx.expected_output, "company") = None
    THEN Return(Zero)
    ELSE IF ctx.output["company"].t # "str" \/ ctx.expected_output["company"].t # "str"
         THEN Raise("AttributeError")
    ELSE Return(ratio(Upper(ctx.output["company"].s),
                      Upper(ctx.expected_output["company"].s)))

AddressEvaluator(ctx) ==
    IF Get(ctx.output, "address") = None \/ Get(ctx.expected_output, "address") = None
    THEN Return(Zero)
    ELSE IF ctx.output["address"].t # "str" \/ ctx.expected_output["address"].t # "str"
         THEN Raise("AttributeError")
    ELSE Return(ratio(Upper(ctx.output["address"].s),
                      Upper(ctx.expected_output["address"].s)))

----------------------------------------------------------------------------
(* Decimal digits, str.split, str.strip, str.replace *)

DigitChars == <<"0", "1", "2", "3", "4", "5", "6", "7", "8", "9">>

IsDigit(c) == \E n \in 1..10 : DigitChars[n] = c
DigitVal(c) == (CHOOSE n \in 1..10 : DigitChars[n] = c) - 1

AllDigits(s) == \A i \in 1..Len(s) : IsDigit(s[i])

RECURSIVE ToInt(_)
ToInt(s) ==
    IF s = <<>> THEN 0
    ELSE 10 * ToInt(SubSeq(s, 1, Len(s) - 1)) + DigitVal(s[Len(s)])

RECURSIVE Pow10(_)
Pow10(n) == IF n = 0 THEN 1 ELSE 10 * Pow10(n - 1)

RECURSIVE IntToChars(_)
IntToChars(n) ==
    IF n < 10 THEN <<DigitChars[n + 1]>>
    ELSE IntToChars(n \div 10) \o <<DigitChars[(n % 10) + 1]>>

RECURSIVE ZeroPad(_, _)
ZeroPad(s, width) == IF Len(s) >= width THEN s ELSE ZeroPad(<<"0">> \o s, width)

(* s.split(sep) for a one-character separator: the list of parts *)
RECURSIVE Split(_, _)
Split(s, sep) ==
    IF \A i \in 1..Len(s) : s[i] # sep THEN <<s>>
    ELSE LET at == CHOOSE i \in 1..Len(s) :
                       s[i] = sep /\ \A h \in 1..(i - 1) : s[h] # sep
         IN  <<SubSeq(s, 1, at - 1)>> \o Split(SubSeq(s, at + 1, Len(s)), sep)

RECURSIVE Strip(_)
Strip(s) ==
    IF s = <<>> THEN s
    ELSE IF Head(s) = " " THEN Strip(Tail(s))
    ELSE IF s[Len(s)] = " " THEN Strip(SubSeq(s, 1, Len(s) - 1))
    ELSE s

(* s.replace(pat, ''): every occurrence of pat, left to right, removed *)
RECURSIVE RemoveAll(_, _)
RemoveAll(s, pat) ==
    IF Len(s) < Len(pat) THEN s
    ELSE IF SubSeq(s, 1, Len(pat)) = pat
         THEN RemoveAll(SubSeq(s, Len(pat) + 1, Len(s)), pat)
    ELSE <<Head(s)>> \o RemoveAll(Tail(s), pat)

----------------------------------------------------------------------------
(* eval_sroie2019.py: DateEvaluator *)

IsLeap(y) == (y % 4 = 0 /\ y % 100 # 0) \/ y % 400 = 0

DaysInMonth(y, m) ==
    IF m = 2 THEN (IF IsLeap(y) THEN 29 ELSE 28)
    ELSE IF m \in {4, 6, 9, 11} THEN 30 ELSE 31

NoDate == [ok |-> FALSE, exc |-> "ValueError", year |-> 0, month |-> 0, day |-> 0]

(* dateutil's parser.parse on the texts the model draws: a value that is    *)
(* not a string is a TypeError; a text YYYY-MM-DD names that calendar day    *)
(* when it exists; anything else is a ParserError (a ValueError).            *)
parse(val) ==
    IF val.t # "str" THEN [NoDate EXCEPT !.exc = "TypeError"]
    ELSE LET parts == Split(val.s, "-")
         IN  IF /\ Len(parts) = 3
                /\ Len(parts[1]) = 4 /\ Len(parts[2]) = 2 /\ Len(parts[3]) = 2
                /\ \A i \in 1..3 : AllDigits(parts[i])
             THEN LET y == ToInt(parts[1])
                      m == ToInt(parts[2])
                      d == ToInt(parts[3])
                  IN  IF y >= 1 /\ m \in 1..12 /\ d \in 1..DaysInMonth(y, m)
                      THEN [ok |-> TRUE, exc |-> "-", year |-> y, month |-> m, day |-> d]
                      ELSE NoDate
             ELSE NoDate

(* date.strftime('%Y-%m-%d') *)
strftime(date) ==
    ZeroPad(IntToChars(date.year), 4) \o <<"-">>
        \o ZeroPad(IntToChars(date.month), 2) \o <<"-">>
        \o ZeroPad(IntToChars(date.day), 2)

(* _swap_day_month putting the parts back in the order it read them *)
swap_day_month_unswapped(date_str) ==
    LET parts == Split(date_str, "-")
    IN  IF Len(parts) = 3
        THEN parts[1] \o <<"-">> \o parts[2] \o <<"-">> \o parts[3]
        ELSE date_str

swap_day_month(date_str) ==
    LET parts == Split(date_str, "-")
    IN  IF Len(parts) = 3
        THEN parts[1] \o <<"-">> \o parts[3] \o <<"-">> \o parts[2]
        ELSE date_str                                   \* except ValueError

DateEvaluator(ctx) ==
    IF Get(ctx.output, "date") = None \/ Get(ctx.expected_output, "date") = None
    THEN Return(Zero)
    ELSE LET expected_date_obj == parse(ctx.expected_output["date"])
             output_date_obj == parse(ctx.output["date"])
         IN  IF ~expected_date_obj.ok \/ ~output_date_obj.ok
             THEN Return(Zero)                          \* except (ValueError, TypeError)
             ELSE LET expected_date == strftime(expected_date_obj)
                      expected_date_swapped == swap_day_month(expected_date)
                      output_date == strftime(output_date_obj)
                  IN  IF output_date = expected_date \/ output_date = expected_date_swapped
                      THEN Return(One)
                      ELSE Return(Zero)

----------------------------------------------------------------------------
(* eval_sroie2019.py: TotalEvaluator *)

NoFloat == [ok |-> FALSE, exc |-> "ValueError", v |-> Zero]

(* float(text) on the texts the model draws: surrounding blanks are         *)
(* ignored, then an optional sign and decimal digits with at most one point *)
float_str(chars) ==
    LET s == Strip(chars)
        signed == s # <<>> /\ Head(s) \in {"-", "+"}
        body == IF signed THEN Tail(s) ELSE s
        parts == Split(body, ".")
        whole == parts[1]
        frac == IF Len(parts) = 2 THEN parts[2] ELSE <<>>
    IN  IF /\ Len(parts) <= 2
           /\ AllDigits(whole) /\ AllDigits(frac)
           /\ Len(whole) + Len(frac) > 0
        THEN LET mag == Frac(ToInt(whole \o frac), Pow10(Len(frac)))
             IN  [ok |-> TRUE, exc |-> "-",
                  v |-> IF signed /\ Head(s) = "-" THEN <<-mag[1], mag[2]>> ELSE mag]
        ELSE NoFloat

(* float(value): a number is itself, a string is parsed, None is a TypeError *)
float(val) ==
    IF val.t = "num" THEN [ok |-> TRUE, exc |-> "-", v |-> val.v]
    ELSE IF val.t = "str" THEN float_str(val.s)
    ELSE [NoFloat EXCEPT !.exc = "TypeError"]

clean_total(total_str) ==
    IF total_str.t # "str" THEN Zero                    \* except AttributeError
    ELSE LET cleaned == Strip(RemoveAll(RemoveAll(RemoveAll(total_str.s,
                                  <<"$">>), <<",">>), <<"R", "M">>))
             parsed == float_str(cleaned)
         IN  IF parsed.ok THEN parsed.v ELSE Zero       \* except ValueError

TotalEvaluator(ctx) ==
    IF Get(ctx.output, "total") = None \/ Get(ctx.expected_output, "total") = None
    THEN Return(Zero)
    ELSE LET expected_total == clean_total(ctx.expected_output["total"])
             output == float(ctx.output["total"])
         IN  IF expected_total = Zero THEN Return(Zero)
             ELSE IF ~output.ok THEN Return(Zero)       \* except (ValueError, TypeError)
             ELSE IF expected_total = output.v THEN Return(One)
             ELSE LET score == RSub(One, RDiv(RAbs(RSub(expected_total, output.v)),
                                              expected_total))
                  IN  Return(RMax(Zero, score))

----------------------------------------------------------------------------
(* The evaluators applied to one context: inputs drawn from bounded sets *)

VARIABLES
    ctx,        \* the EvaluatorContext handed to an evaluator: output, expected_output
    ev,         \* the evaluator applied to ctx and what it did ("-" before any)
    pc,         \* main's position: "start", "running", "done", "aborted", "-"
    source,     \* the rows of the dataset source, in file order
    cases,      \* dataset.cases as load_dataset built it
    limit,      \* max_concurrency as main handed it to the runner
    task,       \* per case position: the position of its extraction call
    reply,      \* per case position: what the service did with the request
    outcome,    \* per case position: what the extraction call returned or raised
    entry,      \* per case position: what the runner recorded for the case
    overtaken,  \* TRUE once a case has completed before a case loaded ahead of it
    on_raise,   \* what the runner does with an exception a task raises
    evaluators, \* dataset.evaluators as load_dataset built it
    report      \* the report's entries once the run ended

vars == <<ctx, ev, pc, source, cases, limit, task, reply, outcome, entry,
          overtaken, on_raise, evaluators, report>>
runVars == <<pc, source, cases, limit, task, reply, outcome, entry,
             overtaken, on_raise, evaluators, report>>

FieldNames == {"name", "company", "address", "date", "total"}

TextChars == {"E", "M", "p"}

Strings(n) == UNION {[1..k -> TextChars] : k \in 0..n}

TextValues == {None} \cup {Str(s) : s \in Strings(MaxLen)}

IsoText(y, m, d) ==
    ZeroPad(IntToChars(y), 4) \o <<"-">> \o ZeroPad(IntToChars(m), 2)
        \o <<"-">> \o ZeroPad(IntToChars(d), 2)

DateValues ==
    {None, Num(<<20240305, 1>>), Str(<<"n", "/", "a">>)}
        \cup {Str(IsoText(2024, m, d)) : m \in {3, 5, 13}, d \in {3, 5, 6, 25}}

TotalTexts == {
    <<"1", "0", "0">>,
    <<"1", "5", "0">>,
    <<"1", "0", "0", "0">>,
    <<"$", "1", ",", "0", "0", "0", ".", "0", "0">>,
    <<"0">>,
    <<"5">>,
    <<"-", "1", "0", "0">>,
    <<"-", "5", "0">>,
    <<"R", "M", " ", "1", "2", ".", "5", "0">>,
    <<" ", "1", "2", ".", "5">>,
    <<"n", "/", "a">>,
    <<>>}

TotalValues ==
    {None, Num(<<150, 1>>), Num(<<-50, 1>>)} \cup {Str(s) : s \in TotalTexts}

FieldValues(f) ==
    CASE f = "date" -> DateValues
      [] f = "total" -> TotalValues
      [] OTHER -> TextValues

(* The mappings holding at most the key f *)
Dicts(f) == {EmptyDict} \cup {Dict(f, val) : val \in FieldValues(f)}

NotEvaluated == [who |-> "-", kind |-> "-", score |-> Zero, exc |-> "-"]

Applied(who, result) ==
    [who |-> who, kind |-> result.kind, score |-> result.score, exc |-> result.exc]

Idle ==
    /\ pc = "-"
    /\ source = <<>>
    /\ cases = <<>>
    /\ limit = 0
    /\ task = <<>>
    /\ reply = <<>>
    /\ outcome = <<>>
    /\ entry = <<>>
    /\ overtaken = FALSE
    /\ on_raise = "-"
    /\ evaluators = <<>>
    /\ report = <<>>

InitEval ==
    /\ \E f \in FieldNames : \E o \in Dicts(f), e \in Dicts(f) :
           ctx = [output |-> o, expected_output |-> e]
    /\ ev = NotEvaluated
    /\ Idle

EvaluateName ==
    /\ ev.who = "-"
    /\ ev' = Applied("NameEvaluator", NameEvaluator(ctx))
    /\ UNCHANGED <<ctx, runVars>>

EvaluateCompany ==
    /\ ev.who = "-"
    /\ ev' = Applied("CompanyEvaluator", CompanyEvaluator(ctx))
    /\ UNCHANGED <<ctx, runVars>>

EvaluateAddress ==
    /\ ev.who = "-"
    /\ ev' = Applied("AddressEvaluator", AddressEvaluator(ctx))
    /\ UNCHANGED <<ctx, runVars>>

EvaluateDate ==
    /\ ev.who = "-"
    /\ ev' = Applied("DateEvaluator", DateEvaluator(ctx))
    /\ UNCHANGED <<ctx, runVars>>

EvaluateTotal ==
    /\ ev.who = "-"
    /\ ev' = Applied("TotalEvaluator", TotalEvaluator(ctx))
    /\ UNCHANGED <<ctx, runVars>>

NextEval ==
    \/ EvaluateName
    \/ EvaluateCompany
    \/ EvaluateAddress
    \/ EvaluateDate
    \/ EvaluateTotal

SpecEval == InitEval /\ [][NextEval]_vars

----------------------------------------------------------------------------
(* extract_name / extract_receipt: one POST, then the response body.       *)
(* A reply is what the service did with the request:                       *)
(*   sent = FALSE      the request failed while being sent (connection     *)
(*                     refused, timeout): session.post raises              *)
(*   json = "invalid"  a response whose body is not JSON                   *)
(*   json = "array"    a JSON body that is not an object                   *)
(*   json = "object"   a JSON object, with or without the key `data`       *)

NoReply == [sent |-> FALSE, json |-> "-", has_data |-> FALSE, data |-> EmptyDict]
NetworkError == [sent |-> FALSE, json |-> "error", has_data |-> FALSE, data |-> EmptyDict]
Body(json, has_data, data) ==
    [sent |-> TRUE, json |-> json, has_data |-> has_data, data |-> data]

UnableToParse == Str(<<"U", "n", "a", "b", "l", "e", " ", "t", "o", " ",
                       "p", "a", "r", "s", "e">>)
ErrorSentinel == Dict("error", UnableToParse)

Returned(value) == [kind |-> "return", value |-> value, exc |-> "-"]
Raised(exc) == [kind |-> "raise", value |-> EmptyDict, exc |-> exc]
NoOutcome == [kind |-> "-", value |-> EmptyDict, exc |-> "-"]

extract_name(r) ==
    IF ~r.sent THEN Raised("ClientError")               \* outside the try
    ELSE IF r.json = "invalid" THEN Returned(ErrorSentinel)   \* response.json() raises
    ELSE IF r.json = "array" THEN Returned(ErrorSentinel)     \* res.get raises
    ELSE IF r.has_data THEN Returned(r.data)
    ELSE Returned(EmptyDict)                            \* res.get('data', {})

extract_receipt(r) ==
    IF ~r.sent THEN Raised("ClientError")               \* outside the try
    ELSE IF r.json = "invalid" THEN Returned(ErrorSentinel)   \* response.json() raises
    ELSE IF r.json = "array" THEN Returned(ErrorSentinel)     \* res.get raises
    ELSE IF r.has_data THEN Returned(r.data)
    ELSE Returned(EmptyDict)                            \* res.get('data', {})

----------------------------------------------------------------------------
(* The dataset sources and load_dataset *)

Merge(d1, d2) ==
    [k \in (DOMAIN d1) \cup (DOMAIN d2) |-> IF k \in DOMAIN d1 THEN d1[k] ELSE d2[k]]

(* HANDWRITING/written_name_test_short.csv: rows FILENAME, IDENTITY *)
CsvSource ==
    [kind |-> "csv",
     rows |-> [k \in 1..NumCases |->
                  [name |-> k,
                   expected |-> Dict("name",
                       Str(IF k % 2 = 1 THEN <<"E", "M">> ELSE <<"p">>))]]]

(* SROIE2019/cases.yaml, each case with the JSON of its expected-output file *)
YamlSource ==
    [kind |-> "yaml",
     rows |-> [k \in 1..NumCases |->
                  [name |-> k,
                   expected |->
                       IF k % 2 = 1
                       THEN Merge(Merge(Dict("company", Str(<<"E", "M">>)),
                                        Dict("address", Str(<<"p">>))),
                                  Merge(Dict("date", Str(IsoText(2024, 3, 5))),
                                        Dict("total", Str(<<"1", "0", "0">>))))
                       ELSE Merge(Dict("company", Str(<<"M">>)),
                                  Dict("total", Str(<<"-", "1", "0", "0">>)))]]]

Case(name, inputs, expected_output) ==
    [name |-> name, inputs |-> inputs, expected_output |-> expected_output]

(* cases.append(case) for every row, in the source's order *)
RECURSIVE load_cases(_, _)
load_cases(rows, dir) ==
    IF rows = <<>> THEN <<>>
    ELSE load_cases(SubSeq(rows, 1, Len(rows) - 1), dir)
             \o <<Case(rows[Len(rows)].name, <<dir, rows[Len(rows)].name>>,
                       rows[Len(rows)].expected)>>

(* load_dataset putting every case in front of the ones read before it *)
RECURSIVE load_cases_prepend(_, _)
load_cases_prepend(rows, dir) ==
    IF rows = <<>> THEN <<>>
    ELSE <<Case(rows[Len(rows)].name, <<dir, rows[Len(rows)].name>>,
                rows[Len(rows)].expected)>>
             \o load_cases_prepend(SubSeq(rows, 1, Len(rows) - 1), dir)

load_dataset_prepend(src) ==
    IF src.kind = "csv"
    THEN [cases |-> load_cases_prepend(src.rows, "HANDWRITING/test"),
          evaluators |-> <<"NameEvaluator">>]
    ELSE [cases |-> load_cases_prepend(src.rows, "SROIE2019/test/img"),
          evaluators |-> <<"CompanyEvaluator", "AddressEvaluator",
                           "DateEvaluator", "TotalEvaluator">>]

load_dataset(src) ==
    IF src.kind = "csv"
    THEN [cases |-> load_cases(src.rows, "HANDWRITING/test"),
          evaluators |-> <<"NameEvaluator">>]
    ELSE [cases |-> load_cases(src.rows, "SROIE2019/test/img"),
          evaluators |-> <<"CompanyEvaluator", "AddressEvaluator",
                           "DateEvaluator", "TotalEvaluator">>]

(* What the service may put under `data` *)
ServiceData(kind) ==
    IF kind = "csv"
    THEN {Dict("name", Str(<<"E", "M">>)), Dict("name", Str(<<>>))}
    ELSE {Merge(Merge(Dict("company", Str(<<"E", "M">>)),
                      Dict("address", Str(<<"M">>))),
                Merge(Dict("date", Str(IsoText(2024, 5, 3))),
                      Dict("total", Str(<<"1", "5", "0">>)))),
          Dict("company", Str(<<"M">>))}

Replies(kind) ==
    {Body("invalid", FALSE, EmptyDict), Body("array", FALSE, EmptyDict),
     Body("object", FALSE, EmptyDict)}
        \cup {Body("object", TRUE, d) : d \in ServiceData(kind)}

----------------------------------------------------------------------------
(* The run: main, the runner's tasks, the report *)

Evaluate(who, c) ==
    CASE who = "NameEvaluator" -> NameEvaluator(c)
      [] who = "CompanyEvaluator" -> CompanyEvaluator(c)
      [] who = "AddressEvaluator" -> AddressEvaluator(c)
      [] who = "DateEvaluator" -> DateEvaluator(c)
      [] who = "TotalEvaluator" -> TotalEvaluator(c)

Range(s) == {s[i] : i \in 1..Len(s)}

(* A scored row: every registered evaluator applied to (output, expected) *)
Row(case, output) ==
    [kind |-> "row", name |-> case.name, output |-> output,
     scores |-> [e \in Range(evaluators) |->
                    Evaluate(e, [output |-> output,
                                 expected_output |-> case.expected_output])]]

(* What the runner keeps of a case whose task raised: no output, no scores *)
Failure(case) ==
    [kind |-> "failure", name |-> case.name, output |-> EmptyDict,
     scores |-> [e \in Range(evaluators) |-> Raise("TaskError")]]

NoEntry == [kind |-> "-", name |-> 0, output |-> EmptyDict,
            scores |-> [e \in {} |-> Raise("-")]]

InFlight == {i \in 1..Len(task) : task[i] \in {"posting", "parsing"}}

Init ==
    /\ ctx = [output |-> EmptyDict, expected_output |-> EmptyDict]
    /\ ev = NotEvaluated
    /\ pc = "start"
    /\ source \in {CsvSource, YamlSource}
    /\ on_raise \in {"propagate", "record"}
    /\ cases = <<>>
    /\ evaluators = <<>>
    /\ limit = 0
    /\ task = <<>>
    /\ reply = <<>>
    /\ outcome = <<>>
    /\ entry = <<>>
    /\ overtaken = FALSE
    /\ report = <<>>

(* main calling dataset.evaluate without max_concurrency: no limiter *)
main_unlimited ==
    /\ pc = "start"
    /\ LET dataset == load_dataset(source)
       IN  /\ cases' = dataset.cases
           /\ evaluators' = dataset.evaluators
           /\ task' = [i \in 1..Len(dataset.cases) |-> "pending"]
           /\ reply' = [i \in 1..Len(dataset.cases) |-> NoReply]
           /\ outcome' = [i \in 1..Len(dataset.cases) |-> NoOutcome]
           /\ entry' = [i \in 1..Len(dataset.cases) |-> NoEntry]
           /\ limit' = Len(dataset.cases) + 1
    /\ pc' = "running"
    /\ UNCHANGED <<ctx, ev, source, overtaken, on_raise, report>>

(* main: load_dataset(), then dataset.evaluate(extract, max_concurrency=...) *)
main ==
    /\ pc = "start"
    /\ LET dataset == load_dataset(source)
       IN  /\ cases' = dataset.cases
           /\ evaluators' = dataset.evaluators
           /\ task' = [i \in 1..Len(dataset.cases) |-> "pending"]
           /\ reply' = [i \in 1..Len(dataset.cases) |-> NoReply]
           /\ outcome' = [i \in 1..Len(dataset.cases) |-> NoOutcome]
           /\ entry' = [i \in 1..Len(dataset.cases) |-> NoEntry]
    /\ limit' = ConcurrencyLimit
    /\ pc' = "running"
    /\ UNCHANGED <<ctx, ev, source, overtaken, on_raise, report>>

(* A waiting case takes a free slot of the limiter and sends its request *)
StartExtract(i) ==
    /\ pc = "running"
    /\ task[i] = "pending"
    /\ Cardinality(InFlight) < limit
    /\ task' = [task EXCEPT ![i] = "posting"]
    /\ UNCHANGED <<ctx, ev, pc, source, cases, limit, reply, outcome, entry,
                   overtaken, on_raise, evaluators, report>>

Overtakes(i) == \E h \in 1..(i - 1) : task[h] # "done"

(* session.post raises: the exception leaves the extract call *)
PostFails(i) ==
    /\ pc = "running"
    /\ task[i] = "posting"
    /\ reply' = [reply EXCEPT ![i] = NetworkError]
    /\ LET extract(r) == IF source.kind = "csv" THEN extract_name(r)
                                                ELSE extract_receipt(r)
       IN  outcome' = [outcome EXCEPT ![i] = extract(NetworkError)]
    /\ task' = [task EXCEPT ![i] = "done"]
    /\ overtaken' = (overtaken \/ Overtakes(i))
    /\ IF on_raise = "propagate"
       THEN pc' = "aborted" /\ UNCHANGED entry
       ELSE pc' = pc /\ entry' = [entry EXCEPT ![i] = Failure(cases[i])]
    /\ UNCHANGED <<ctx, ev, source, cases, limit, on_raise, evaluators, report>>

(* The response arrives; its body is still to be read *)
PostResponds(i, r) ==
    /\ pc = "running"
    /\ task[i] = "posting"
    /\ reply' = [reply EXCEPT ![i] = r]
    /\ task' = [task EXCEPT ![i] = "parsing"]
    /\ UNCHANGED <<ctx, ev, pc, source, cases, limit, outcome, entry,
                   overtaken, on_raise, evaluators, report>>

(* response.json() and the return of extract; the runner scores the output *)
ParseResponse(i) ==
    /\ pc = "running"
    /\ task[i] = "parsing"
    /\ LET extract(r) == IF source.kind = "csv" THEN extract_name(r)
                                                ELSE extract_receipt(r)
           result == extract(reply[i])
       IN  /\ outcome' = [outcome EXCEPT ![i] = result]
           /\ entry' = [entry EXCEPT ![i] = Row(cases[i], result.value)]
    /\ task' = [task EXCEPT ![i] = "done"]
    /\ overtaken' = (overtaken \/ Overtakes(i))
    /\ UNCHANGED <<ctx, ev, pc, source, cases, limit, reply, on_raise,
                   evaluators, report>>

(* Every task has ended: the report lists the entries by case position *)
Finish ==
    /\ pc = "running"
    /\ \A i \in 1..Len(task) : task[i] = "done"
    /\ report' = [i \in 1..Len(cases) |-> entry[i]]
    /\ pc' = "done"
    /\ UNCHANGED <<ctx, ev, source, cases, limit, task, reply, outcome, entry,
                   overtaken, on_raise, evaluators>>

Next ==
    \/ main
    \/ \E i \in 1..Len(task) : StartExtract(i)
    \/ \E i \in 1..Len(task) : PostFails(i)
    \/ \E i \in 1..Len(task) : \E r \in Replies(source.kind) : PostResponds(i, r)
    \/ \E i \in 1..Len(task) : ParseResponse(i)
    \/ Finish

Spec == Init /\ [][Next]_vars

----------------------------------------------------------------------------
(* Properties of the evaluators, over SpecEval *)

FieldOf(who) ==
    CASE who = "NameEvaluator" -> "name"
      [] who = "CompanyEvaluator" -> "company"
      [] who = "AddressEvaluator" -> "address"
      [] who = "DateEvaluator" -> "date"
      [] who = "TotalEvaluator" -> "total"

TextEvaluators == {"NameEvaluator", "CompanyEvaluator", "AddressEvaluator"}

Missing(d, f) == Get(d, f) = None

BothText(f) ==
    /\ Get(ctx.output, f).t = "str"
    /\ Get(ctx.expected_output, f).t = "str"

InUnitInterval(q) == ~RLess(q, Zero) /\ ~RLess(One, q)

(* C1: whenever the evaluator's field is missing (key absent or None) on    *)
(* the output side or on the expected side, evaluate returns exactly 0.0    *)
(* and raises nothing.                                                      *)
C1_MissingFieldScoresZero ==
    (/\ ev.who # "-"
     /\ \/ Missing(ctx.output, FieldOf(ev.who))
        \/ Missing(ctx.expected_output, FieldOf(ev.who)))
        => ev.kind = "return" /\ ev.score = Zero

(* C2: every score an evaluator returns lies in [0.0, 1.0]. *)
C2_ScoreInUnitInterval ==
    (ev.who # "-" /\ ev.kind = "return") => InUnitInterval(ev.score)

(* The number a total text stands for once currency marks are stripped *)
ExpectedNumber(val) ==
    IF val.t = "str"
    THEN float_str(Strip(RemoveAll(RemoveAll(RemoveAll(val.s,
                       <<"$">>), <<",">>), <<"R", "M">>)))
    ELSE NoFloat

(* C7: with e the number the expected total parses to and a the number the  *)
(* output total parses to, the score is 0.0 if e = 0, 1.0 if e = a, and     *)
(* otherwise max(0, 1 - |e - a| / |e|); 0.0 if either side fails to parse.   *)
C7_NumericTolerance ==
    (/\ ev.who = "TotalEvaluator"
     /\ ~Missing(ctx.output, "total")
     /\ ~Missing(ctx.expected_output, "total"))
        => LET e == ExpectedNumber(ctx.expected_output["total"])
               a == float(ctx.output["total"])
           IN  /\ ev.kind = "return"
               /\ ev.score =
                      IF ~e.ok \/ ~a.ok THEN Zero
                      ELSE IF e.v = Zero THEN Zero
                      ELSE IF e.v = a.v THEN One
                      ELSE RMax(Zero, RSub(One, RDiv(RAbs(RSub(e.v, a.v)),
                                                     RAbs(e.v))))

(* C8: the date score is binary: when both dates parse it is 1.0 if they    *)
(* are the same day or the output is the expected date with day and month   *)
(* exchanged, and 0.0 otherwise; when either side does not parse it is 0.0  *)
(* and nothing is raised.                                                   *)
C8_DateSimilarityBinary ==
    ev.who = "DateEvaluator"
        => LET e == parse(Get(ctx.expected_output, "date"))
               a == parse(Get(ctx.output, "date"))
               same == a.year = e.year /\ a.month = e.month /\ a.day = e.day
               swapped == a.year = e.year /\ a.month = e.day /\ a.day = e.month
           IN  /\ ev.kind = "return"
               /\ ev.score = IF e.ok /\ a.ok /\ (same \/ swapped) THEN One ELSE Zero

(* A date scored 1.0 although it differs from the expected one: its day and *)
(* month are exchanged.                                                     *)
C8_Witness ==
    /\ ev.who = "DateEvaluator"
    /\ parse(Get(ctx.expected_output, "date")).ok
    /\ parse(Get(ctx.output, "date")).ok
    /\ parse(Get(ctx.expected_output, "date")) # parse(Get(ctx.output, "date"))
    /\ ev.score = One

SameText(f) ==
    /\ BothText(f)
    /\ ctx.output[f].s = ctx.expected_output[f].s

(* C9 as stated: every text evaluator returns 1.0 when the extracted and    *)
(* the expected value are the same string, the empty string included.       *)
C9_IdenticalTextScoresOne ==
    (ev.who \in TextEvaluators /\ SameText(FieldOf(ev.who)))
        => ev.kind = "return" /\ ev.score = One

(* C9 amended: on the same string on both sides every text evaluator        *)
(* returns 1.0, except NameEvaluator on the empty string, which it replaces *)
(* by "EMPTY" on the extracted side and scores 0.0.                         *)
C9_IdenticalText ==
    (ev.who \in TextEvaluators /\ SameText(FieldOf(ev.who)))
        => /\ ev.kind = "return"
           /\ ev.score = IF ev.who = "NameEvaluator" /\ ctx.output["name"].s = <<>>
                         THEN Zero ELSE One

(* Two empty strings compared by CompanyEvaluator score 1.0 *)
C9_Witness ==
    /\ ev.who = "CompanyEvaluator"
    /\ SameText("company")
    /\ ctx.output["company"].s = <<>>
    /\ ev.score = One

Swapped(c) == [output |-> c.expected_output, expected_output |-> c.output]

(* C10: every text evaluator returns the same score when the extracted and  *)
(* the expected string are exchanged.                                       *)
C10_TextSimilaritySymmetric ==
    (ev.who \in TextEvaluators /\ BothText(FieldOf(ev.who)))
        => ev = Applied(ev.who, Evaluate(ev.who, Swapped(ctx)))

----------------------------------------------------------------------------
(* Properties of the run, over Spec *)

Positions == 1..Len(task)

(* The failures of one call that C3 names *)
PerCaseFailure(r) ==
    \/ r = NetworkError
    \/ r.sent /\ r.json = "invalid"
    \/ r.sent /\ r.json = "object" /\ ~r.has_data

CallFailed(i) ==
    \/ outcome[i].kind = "raise"
    \/ PerCaseFailure(reply[i])
    \/ reply[i].sent /\ reply[i].json = "array"

(* C3: extract never raises: on a network error, a body that is not JSON or *)
(* a JSON body without `data` it returns the error sentinel.                *)
C3_ExtractReturnsSentinel ==
    \A i \in Positions :
        (outcome[i].kind # "-" /\ PerCaseFailure(reply[i]))
            => outcome[i] = Returned(ErrorSentinel)

C5_InFlightBounded ==
    /\ Cardinality(InFlight) <= ConcurrencyLimit
    /\ \A i \in Positions :
           /\ task[i] \in {"pending", "posting", "parsing", "done"}
           /\ (pc = "running" /\ task[i] = "pending"
                   /\ Cardinality(InFlight) < ConcurrencyLimit)
                  => ENABLED StartExtract(i)
           /\ pc = "done" => task[i] = "done" /\ report[i].kind # "-"

(* The limiter is full and a case is waiting for a slot *)
C5_Witness ==
    /\ pc = "running"
    /\ Cardinality(InFlight) = ConcurrencyLimit
    /\ \E i \in Positions : task[i] = "pending"

(* C6: the i-th entry of the final report belongs to the i-th case of the   *)
(* dataset source, whatever the order in which the calls completed.         *)
C6_ReportInInputOrder ==
    pc = "done"
        => /\ Len(report) = Len(source.rows)
           /\ \A i \in 1..Len(report) : report[i].name = source.rows[i].name

(* A finished run in which a case completed before one loaded ahead of it *)
C6_Witness ==
    /\ pc = "done"
    /\ overtaken
    /\ Len(report) = NumCases

====
